---- MODULE Spec2Model ----
(***************************************************************************)
(* Model of frontend/src/App.jsx: the coordinator component App and the    *)
(* per-instance widget ChatInstance of the A.I. reply arena.               *)
(*                                                                         *)
(* One action is one browser task: a UI event handler, the continuation of *)
(* an awaited fetch, or a timer callback, together with the re-render and  *)
(* the effects React runs after it.  Text values (prompts, API keys) are   *)
(* sequences of characters so that String.prototype.trim is computed.      *)
(*                                                                         *)
(* A `disabled` attribute whose condition the handler re-validates itself  *)
(* (blank input) is modelled by the handler's own early return; a          *)
(* `disabled` condition the handler does not re-check (savingApiKey,       *)
(* isLoading) and every conditional rendering are guards of the action.    *)
(***************************************************************************)
EXTENDS Integers, Sequences, FiniteSets, TLC

\* ------------------------------------------------------------------ bounds
MaxModels == 2      \* instances that may exist in activeModels
MaxTrigger == 2     \* values of the triggerSend counter explored
MaxFetches == 2     \* /api/models/provider requests in flight together
MaxKeyRounds == 2   \* loadKeysForModels batches issued per page session
MaxWinners == 1     \* winner selections whose request or reload is pending together

\* ------------------------------------------------------------- text values
PromptChars == {" ", "a", "b"}
Prompts == {<<>>} \cup {<<c>> : c \in PromptChars}
KeyInputs == {<<>>, <<" ">>, <<"k">>}
NoKey == <<>>          \* null, undefined and '' are all falsy in `!encryptedApiKey`
ServerKey == <<"s">>   \* the key /api/keys/get holds for a provider

RECURSIVE TrimStart(_)
TrimStart(s) == IF s # <<>> /\ Head(s) = " " THEN TrimStart(Tail(s)) ELSE s

RECURSIVE TrimEnd(_)
TrimEnd(s) ==
  IF s # <<>> /\ s[Len(s)] = " " THEN TrimEnd(SubSeq(s, 1, Len(s) - 1)) ELSE s

\* Mutant of Trim: the input is tested as typed.
TrimNothing(s) == s

Trim(s) == TrimEnd(TrimStart(s))

\* --------------------------------------------------------------- providers
None == "none"                      \* JavaScript null for provider / model
Providers == {"openai", "acme"}     \* icon names; "acme" has no case in getProviderURL
Throws == "throws"

getProviderURL(providerName) ==
  IF providerName = "openai" THEN "https://chatgpt.com/c/?prompt=" ELSE Throws

ServerModels(p) == IF p = "openai" THEN <<"gpt">> ELSE <<"acme-1">>
ModelNames == {ServerModels(p)[k] : p \in Providers, k \in {1}}

\* ---------------------------------------------------------------- messages
MsgEnterKey == "Please enter an API key"
MsgSelectModel == "Please select a model"
MsgSaving == "Saving..."
MsgSaveFailed == "Failed to save"
MsgAdded == "Model(s) added successfully!"
MsgKeyMissing == "API key missing. Please add it first."
MsgUnreachable == "Error: Failed to fetch"

\* -------------------------------------------------------------------- state
VARIABLES
  lsConsent, lsModels,                         \* localStorage entries
  hasConsented, showConsentModal, masterPrompt, activeModels,
  showAddModal, isStarted, triggerSend,
  selectedProvider, availableModels, loadingModels, selectedModel,
  apiKeyInput, savingApiKey, saveMessage, instanceCount,
  chat,                                        \* state of the mounted ChatInstances
  modelFetches, saveReqs, keyBatches, processReqs, winnerReqs,  \* requests in flight
  resetTimers, reloadPending,                  \* pending setTimeout callbacks
  clock, keyRounds, openedTabs                 \* Date.now(), history

storageVars == <<lsConsent, lsModels>>
coordVars == <<hasConsented, showConsentModal, masterPrompt, activeModels,
               showAddModal, isStarted, triggerSend>>
modalVars == <<selectedProvider, availableModels, loadingModels, selectedModel,
               apiKeyInput, savingApiKey, saveMessage, instanceCount>>
netVars == <<modelFetches, saveReqs, keyBatches, processReqs, winnerReqs>>
timerVars == <<resetTimers, reloadPending>>
histVars == <<clock, keyRounds, openedTabs>>
vars == <<storageVars, coordVars, modalVars, chat, netVars, timerVars, histVars>>

\* ------------------------------------------------------------ model records
NewModel(provider, modelName, stamp, i, key) ==
  [id |-> <<provider, modelName, stamp, i>>,
   name |-> modelName,
   provider |-> provider,
   url |-> getProviderURL(provider),
   encryptedApiKey |-> key]

\* Lists a previous session may have left under localStorage 'activeModels':
\* records written by handleSaveApiKey, and a record without a key, the case
\* loadKeysForModels exists for.
StoredLists ==
  { <<>>,
    <<NewModel("openai", "gpt", 0, 0, <<"k">>)>>,
    <<NewModel("openai", "gpt", 0, 0, NoKey)>>,
    <<NewModel("openai", "gpt", 0, 0, <<"k">>), NewModel("openai", "gpt", 0, 1, NoKey)>> }

\* ------------------------------------------------------------ ChatInstance
NewInstance(mp, ts) ==
  [userPrompt |-> mp,
   aiResponse |-> "",
   isInputHidden |-> (ts > 0),
   showButtons |-> FALSE,
   isLoading |-> FALSE,
   error |-> None,
   dismissed |-> FALSE,     \* container.style.display = 'none'
   sent |-> 0,              \* history: /api/process requests issued since mount
   answered |-> 0,          \* history: which of them the shown response replies to
   answeredPrompt |-> <<>>] \* history: the prompt that request carried

\* Mutant of Sends: the request goes out whether or not a key is present.
SendsWithoutKey(r, key) == Trim(r.userPrompt) # <<>>

\* handleSend up to its await: does this call issue a request?
Sends(r, key) == Trim(r.userPrompt) # <<>> /\ key # NoKey

\* Mutant of HandleSendState: isLoading is set before the key is looked at.
HandleSendStateLoadingFirst(r, key) ==
  IF Trim(r.userPrompt) = <<>> THEN r
  ELSE IF key = NoKey THEN [r EXCEPT !.aiResponse = MsgKeyMissing, !.isLoading = TRUE]
  ELSE [r EXCEPT !.isLoading = TRUE, !.error = None, !.sent = @ + 1]

\* handleSend up to its await: the instance state it leaves.
HandleSendState(r, key) ==
  IF Trim(r.userPrompt) = <<>> THEN r
  ELSE IF key = NoKey THEN [r EXCEPT !.aiResponse = MsgKeyMissing]
  ELSE [r EXCEPT !.isLoading = TRUE, !.error = None, !.sent = @ + 1]

\* The fetch('/api/process') handleSend issues for instance i in state r.
ProcessRequest(i, r, model) ==
  [inst |-> i, n |-> r.sent + 1,
   modelIdentifier |-> model.id, prompt |-> r.userPrompt,
   encryptedApiKey |-> model.encryptedApiKey]

\* Rendering the list after a state change: instances already mounted keep
\* their state (React key = model.id), new ones mount with the current
\* masterPrompt and, when triggerSend > 0, run handleSend from the effect.
\* (The mount-time fetch of /api/keys/get in ChatInstance changes no state:
\* its only setter, setEncryptedApiKey, is undefined and the ReferenceError
\* is caught.)
RenderChat(old, models, consented, mp, ts) ==
  IF ~consented THEN <<>>
  ELSE [i \in 1..Len(models) |->
          IF i <= Len(old) THEN old[i]
          ELSE IF ts > 0
               THEN HandleSendState(NewInstance(mp, ts), models[i].encryptedApiKey)
               ELSE NewInstance(mp, ts)]

MountRequests(old, models, consented, mp, ts) ==
  IF ~consented \/ ts = 0 THEN {}
  ELSE { ProcessRequest(i, NewInstance(mp, ts), models[i]) :
           i \in { j \in (Len(old) + 1)..Len(models) :
                     Sends(NewInstance(mp, ts), models[j].encryptedApiKey) } }

\* ------------------------------------------------------- loadKeysForModels
ModelsNeedingKeys(models) ==
  { i \in 1..Len(models) : models[i].encryptedApiKey = NoKey }

\* Mutant of LoadKeysEffect: loadKeysForModels is called without the
\* hasConsented test.
LoadKeysEffectUnguarded(batches, models, consented) ==
  IF ModelsNeedingKeys(models) # {}
  THEN Append(batches, ModelsNeedingKeys(models))
  ELSE batches

\* The effect on [hasConsented, activeModels]: the batches in flight after it ran.
LoadKeysEffect(batches, models, consented) ==
  IF consented /\ ModelsNeedingKeys(models) # {}
  THEN Append(batches, ModelsNeedingKeys(models))
  ELSE batches

LoadKeysIssues(models, consented) ==
  consented /\ ModelsNeedingKeys(models) # {}

\* ---------------------------------------------------------------- page load
\* Mutant of PageLoaded: the consent effect never opens the consent modal.
PageLoadedModalHidden(consent, stored) ==
  /\ hasConsented' = (consent = "true")
  /\ showConsentModal' = FALSE
  /\ masterPrompt' = <<>>
  /\ activeModels' = stored
  /\ showAddModal' = FALSE
  /\ isStarted' = FALSE
  /\ triggerSend' = 0
  /\ selectedProvider' = None
  /\ availableModels' = <<>>
  /\ loadingModels' = FALSE
  /\ selectedModel' = None
  /\ apiKeyInput' = <<>>
  /\ savingApiKey' = FALSE
  /\ saveMessage' = ""
  /\ instanceCount' = 1
  /\ chat' = RenderChat(<<>>, stored, consent = "true", <<>>, 0)
  /\ modelFetches' = <<>>
  /\ saveReqs' = {}
  /\ keyBatches' = LoadKeysEffect(<<>>, stored, consent = "true")
  /\ processReqs' = {}
  /\ winnerReqs' = {}
  /\ resetTimers' = 0
  /\ reloadPending' = FALSE
  /\ keyRounds' = IF LoadKeysIssues(stored, consent = "true") THEN 1 ELSE 0
  /\ openedTabs' = {}

\* The state once the first render and its mount effects have settled.
PageLoaded(consent, stored) ==
  /\ hasConsented' = (consent = "true")
  /\ showConsentModal' = (consent # "true")
  /\ masterPrompt' = <<>>
  /\ activeModels' = stored
  /\ showAddModal' = FALSE
  /\ isStarted' = FALSE
  /\ triggerSend' = 0
  /\ selectedProvider' = None
  /\ availableModels' = <<>>
  /\ loadingModels' = FALSE
  /\ selectedModel' = None
  /\ apiKeyInput' = <<>>
  /\ savingApiKey' = FALSE
  /\ saveMessage' = ""
  /\ instanceCount' = 1
  /\ chat' = RenderChat(<<>>, stored, consent = "true", <<>>, 0)
  /\ modelFetches' = <<>>
  /\ saveReqs' = {}
  /\ keyBatches' = LoadKeysEffect(<<>>, stored, consent = "true")
  /\ processReqs' = {}
  /\ winnerReqs' = {}
  /\ resetTimers' = 0
  /\ reloadPending' = FALSE
  /\ keyRounds' = IF LoadKeysIssues(stored, consent = "true") THEN 1 ELSE 0
  /\ openedTabs' = {}

Init ==
  /\ lsConsent \in {None, "true"}
  /\ lsModels \in StoredLists
  /\ hasConsented = (lsConsent = "true")
  /\ showConsentModal = (lsConsent # "true")
  /\ masterPrompt = <<>>
  /\ activeModels = lsModels
  /\ showAddModal = FALSE
  /\ isStarted = FALSE
  /\ triggerSend = 0
  /\ selectedProvider = None
  /\ availableModels = <<>>
  /\ loadingModels = FALSE
  /\ selectedModel = None
  /\ apiKeyInput = <<>>
  /\ savingApiKey = FALSE
  /\ saveMessage = ""
  /\ instanceCount = 1
  /\ chat = RenderChat(<<>>, lsModels, lsConsent = "true", <<>>, 0)
  /\ modelFetches = <<>>
  /\ saveReqs = {}
  /\ keyBatches = LoadKeysEffect(<<>>, lsModels, lsConsent = "true")
  /\ processReqs = {}
  /\ winnerReqs = {}
  /\ resetTimers = 0
  /\ reloadPending = FALSE
  /\ clock = 1
  /\ keyRounds = IF LoadKeysIssues(lsModels, lsConsent = "true") THEN 1 ELSE 0
  /\ openedTabs = {}

\* window.location.reload(): every continuation and timer of the old page is gone.
Reload ==
  /\ PageLoaded(lsConsent, lsModels)
  /\ UNCHANGED <<storageVars, clock>>

\* The App tree below the consent gates is rendered.
Rendered == hasConsented /\ ~showConsentModal

\* masterInputContainer has display 'flex'.
MasterShown == Rendered /\ ~(triggerSend > 0 /\ Len(activeModels) # 0)

\* Instance i is mounted, its chatGrid is displayed and it was not dismissed.
InstanceShown(i) ==
  Rendered /\ i \in 1..Len(chat) /\ isStarted /\ ~chat[i].dismissed

\* The loadKeysForModels effect may run once more within the explored bound.
WithinKeyRounds(models, consented) ==
  LoadKeysIssues(models, consented) => keyRounds < MaxKeyRounds

KeyRoundsAfter(models, consented) ==
  IF LoadKeysIssues(models, consented) THEN keyRounds + 1 ELSE keyRounds

\* ------------------------------------------------------------------ consent
handleConsent ==
  /\ showConsentModal
  /\ WithinKeyRounds(activeModels, TRUE)
  /\ lsConsent' = "true"
  /\ hasConsented' = TRUE
  /\ showConsentModal' = FALSE
  /\ chat' = RenderChat(chat, activeModels, TRUE, masterPrompt, triggerSend)
  /\ keyBatches' = LoadKeysEffect(keyBatches, activeModels, TRUE)
  /\ keyRounds' = KeyRoundsAfter(activeModels, TRUE)
  /\ UNCHANGED <<lsModels, masterPrompt, activeModels, showAddModal, isStarted,
                 triggerSend, modalVars, modelFetches, saveReqs, processReqs,
                 winnerReqs, timerVars, clock, openedTabs>>

handleReject ==
  /\ showConsentModal
  /\ lsConsent' = None
  /\ PageLoaded(None, lsModels)
  /\ UNCHANGED <<lsModels, clock>>

\* ------------------------------------------------------------- master input
\* Mutant of handleMasterPromptChange: the instances do not follow the change.
handleMasterPromptChangeLocal(value) ==
  /\ MasterShown
  /\ value # masterPrompt
  /\ masterPrompt' = value
  /\ isStarted' = (isStarted \/ Trim(value) # <<>>)
  /\ UNCHANGED <<storageVars, hasConsented, showConsentModal, activeModels,
                 showAddModal, triggerSend, modalVars, chat, netVars, timerVars,
                 histVars>>

handleMasterPromptChange(value) ==
  /\ MasterShown
  /\ value # masterPrompt
  /\ masterPrompt' = value
  /\ isStarted' = (isStarted \/ Trim(value) # <<>>)
  /\ chat' = [i \in 1..Len(chat) |-> [chat[i] EXCEPT !.userPrompt = value]]
  /\ UNCHANGED <<storageVars, hasConsented, showConsentModal, activeModels,
                 showAddModal, triggerSend, modalVars, netVars, timerVars, histVars>>

\* Enter in the master input (handleKeyPress).
handleSendMasterPrompt ==
  /\ MasterShown
  /\ IF Trim(masterPrompt) # <<>>
     THEN /\ triggerSend < MaxTrigger
          /\ isStarted' = TRUE
          /\ triggerSend' = triggerSend + 1
          /\ chat' = [i \in 1..Len(chat) |->
                        HandleSendState(chat[i], activeModels[i].encryptedApiKey)]
          /\ processReqs' = processReqs \cup
               { ProcessRequest(i, chat[i], activeModels[i]) :
                   i \in { j \in 1..Len(chat) :
                             Sends(chat[j], activeModels[j].encryptedApiKey) } }
     ELSE UNCHANGED <<isStarted, triggerSend, chat, processReqs>>
  /\ UNCHANGED <<storageVars, hasConsented, showConsentModal, masterPrompt,
                 activeModels, showAddModal, modalVars, modelFetches, saveReqs,
                 keyBatches, winnerReqs, timerVars, histVars>>

\* ------------------------------------------------------------ chat instance
setUserPrompt(i, value) ==
  /\ InstanceShown(i)
  /\ ~chat[i].isInputHidden
  /\ ~chat[i].isLoading
  /\ value # chat[i].userPrompt
  /\ chat' = [chat EXCEPT ![i].userPrompt = value]
  /\ UNCHANGED <<storageVars, coordVars, modalVars, netVars, timerVars, histVars>>

\* The send button or Enter in the instance's own input.
handleSend(i) ==
  /\ InstanceShown(i)
  /\ ~chat[i].isInputHidden
  /\ ~chat[i].isLoading
  /\ chat' = [chat EXCEPT ![i] = HandleSendState(@, activeModels[i].encryptedApiKey)]
  /\ processReqs' =
       IF Sends(chat[i], activeModels[i].encryptedApiKey)
       THEN processReqs \cup {ProcessRequest(i, chat[i], activeModels[i])}
       ELSE processReqs
  /\ UNCHANGED <<storageVars, coordVars, modalVars, modelFetches, saveReqs,
                 keyBatches, winnerReqs, timerVars, histVars>>

\* What can come back for /api/process: a body with a reply, an HTTP error
\* with an error text, a rejected fetch.  (A body without text takes the same
\* branch and shows the `||` default string instead.)
Outcomes == {"reply", "httpError", "networkError"}

ResponseText(outcome) ==
  CASE outcome = "reply" -> "<reply>"
    [] outcome = "httpError" -> "<error>"
    [] outcome = "networkError" -> MsgUnreachable

\* Mutant of AfterReply: the finally block does not show the buttons.
AfterReplyNoButtons(r, req, outcome) ==
  [r EXCEPT !.aiResponse = ResponseText(outcome),
            !.error = IF outcome = "networkError" THEN "Failed to fetch" ELSE @,
            !.isLoading = FALSE,
            !.isInputHidden = TRUE,
            !.answered = req.n,
            !.answeredPrompt = req.prompt]

\* Mutant of AfterReply: the finally block does not hide the input.
AfterReplyKeepsInput(r, req, outcome) ==
  [r EXCEPT !.aiResponse = ResponseText(outcome),
            !.error = IF outcome = "networkError" THEN "Failed to fetch" ELSE @,
            !.isLoading = FALSE,
            !.showButtons = TRUE,
            !.answered = req.n,
            !.answeredPrompt = req.prompt]

\* handleSend after its await: try / catch / finally.
AfterReply(r, req, outcome) ==
  [r EXCEPT !.aiResponse = ResponseText(outcome),
            !.error = IF outcome = "networkError" THEN "Failed to fetch" ELSE @,
            !.isLoading = FALSE,
            !.isInputHidden = TRUE,
            !.showButtons = TRUE,
            !.answered = req.n,
            !.answeredPrompt = req.prompt]

\* Mutant of processReply: the reply is written to every mounted instance.
processReplyAll(req, outcome) ==
  /\ req \in processReqs
  /\ processReqs' = processReqs \ {req}
  /\ chat' = [j \in 1..Len(chat) |->
                IF j = req.inst
                THEN [chat[j] EXCEPT !.aiResponse = ResponseText(outcome),
                                     !.isLoading = FALSE, !.isInputHidden = TRUE,
                                     !.showButtons = TRUE, !.answered = req.n,
                                     !.answeredPrompt = req.prompt]
                ELSE [chat[j] EXCEPT !.aiResponse = ResponseText(outcome)]]
  /\ UNCHANGED <<storageVars, coordVars, modalVars, modelFetches, saveReqs,
                 keyBatches, winnerReqs, timerVars, histVars>>

processReply(req, outcome) ==
  /\ req \in processReqs
  /\ processReqs' = processReqs \ {req}
  /\ chat' = [chat EXCEPT ![req.inst] = AfterReply(@, req, outcome)]
  /\ UNCHANGED <<storageVars, coordVars, modalVars, modelFetches, saveReqs,
                 keyBatches, winnerReqs, timerVars, histVars>>

handleSelectWinner(i) ==
  /\ InstanceShown(i)
  /\ chat[i].showButtons
  /\ Cardinality(winnerReqs) + (IF reloadPending THEN 1 ELSE 0) < MaxWinners
  /\ winnerReqs' = winnerReqs \cup
       {[inst |-> i, modelIdentifier |-> activeModels[i].id,
         prompt |-> chat[i].userPrompt, response |-> chat[i].aiResponse]}
  /\ UNCHANGED <<storageVars, coordVars, modalVars, chat, modelFetches, saveReqs,
                 keyBatches, processReqs, timerVars, histVars>>

\* handleSelectWinner after its await.  fetch resolves with any response, an
\* HTTP error status included (response.ok is not looked at), and rejects on
\* a network failure: window.open unless fetch rejected or new URL(modelUrl)
\* threw, then the 500 ms reload timer in every case.  The first reload timer
\* to fire discards the others, so one flag stands for them.
winnerReply(w, outcome) ==
  /\ w \in winnerReqs
  /\ winnerReqs' = winnerReqs \ {w}
  /\ openedTabs' = IF outcome # "networkError" /\ activeModels[w.inst].url # Throws
                   THEN openedTabs \cup {[inst |-> w.inst, outcome |-> outcome]}
                   ELSE openedTabs
  /\ reloadPending' = TRUE
  /\ UNCHANGED <<storageVars, coordVars, modalVars, chat, modelFetches, saveReqs,
                 keyBatches, processReqs, resetTimers, clock, keyRounds>>

reloadTimerFires ==
  /\ reloadPending
  /\ Reload

\* Mutant of handleDismiss: the record is taken out of the stored list too.
handleDismissStored(i) ==
  /\ InstanceShown(i)
  /\ chat[i].showButtons
  /\ chat' = [chat EXCEPT ![i].dismissed = TRUE]
  /\ lsModels' = SelectSeq(lsModels, LAMBDA m : m.id # activeModels[i].id)
  /\ UNCHANGED <<lsConsent, coordVars, modalVars, netVars, timerVars, histVars>>

handleDismiss(i) ==
  /\ InstanceShown(i)
  /\ chat[i].showButtons
  /\ chat' = [chat EXCEPT ![i].dismissed = TRUE]
  /\ UNCHANGED <<storageVars, coordVars, modalVars, netVars, timerVars, histVars>>

\* ---------------------------------------------------------- add-model modal
handleAddModel ==
  /\ MasterShown
  /\ showAddModal' = TRUE
  /\ UNCHANGED <<storageVars, hasConsented, showConsentModal, masterPrompt,
                 activeModels, isStarted, triggerSend, modalVars, chat, netVars,
                 timerVars, histVars>>

handleCloseAddModal ==
  /\ Rendered
  /\ showAddModal
  /\ showAddModal' = FALSE
  /\ selectedProvider' = None
  /\ availableModels' = <<>>
  /\ selectedModel' = None
  /\ apiKeyInput' = <<>>
  /\ saveMessage' = ""
  /\ instanceCount' = 1
  /\ UNCHANGED <<storageVars, hasConsented, showConsentModal, masterPrompt,
                 activeModels, isStarted, triggerSend, loadingModels, savingApiKey,
                 chat, netVars, timerVars, histVars>>

\* handleIconSelect up to its await.
handleIconSelect(iconName) ==
  /\ Rendered
  /\ showAddModal
  /\ Len(modelFetches) < MaxFetches
  /\ selectedProvider' = iconName
  /\ selectedModel' = None
  /\ apiKeyInput' = <<>>
  /\ saveMessage' = ""
  /\ loadingModels' = TRUE
  /\ modelFetches' = Append(modelFetches, iconName)
  /\ UNCHANGED <<storageVars, coordVars, availableModels, savingApiKey,
                 instanceCount, chat, saveReqs, keyBatches, processReqs,
                 winnerReqs, timerVars, histVars>>

RemoveAt(s, k) == SubSeq(s, 1, k - 1) \o SubSeq(s, k + 1, Len(s))

\* fetchProviderModels: data.models, or [] for a failure or a body without models.
FetchedModels(iconName, ok) == IF ok THEN ServerModels(iconName) ELSE <<>>

\* handleIconSelect after its await, for the k-th request in flight.
modelsReply(k, ok) ==
  /\ k \in 1..Len(modelFetches)
  /\ modelFetches' = RemoveAt(modelFetches, k)
  /\ availableModels' = FetchedModels(modelFetches[k], ok)
  /\ loadingModels' = FALSE
  /\ UNCHANGED <<storageVars, coordVars, selectedProvider, selectedModel,
                 apiKeyInput, savingApiKey, saveMessage, instanceCount, chat,
                 saveReqs, keyBatches, processReqs, winnerReqs, timerVars, histVars>>

\* A click on an item of the rendered list of available models.
handleModelSelect(model) ==
  /\ Rendered
  /\ showAddModal
  /\ ~loadingModels
  /\ selectedProvider # None
  /\ \E k \in 1..Len(availableModels) : availableModels[k] = model
  /\ selectedModel' = model
  /\ apiKeyInput' = <<>>
  /\ saveMessage' = ""
  /\ UNCHANGED <<storageVars, coordVars, selectedProvider, availableModels,
                 loadingModels, savingApiKey, instanceCount, chat, netVars,
                 timerVars, histVars>>

setApiKeyInput(value) ==
  /\ Rendered
  /\ showAddModal
  /\ ~savingApiKey
  /\ value # apiKeyInput
  /\ apiKeyInput' = value
  /\ UNCHANGED <<storageVars, coordVars, selectedProvider, availableModels,
                 loadingModels, selectedModel, savingApiKey, saveMessage,
                 instanceCount, chat, netVars, timerVars, histVars>>

\* handleSaveApiKey up to its await.  The continuation keeps the values of
\* the render it was created in, so the request record carries them.
handleSaveApiKey ==
  /\ Rendered
  /\ showAddModal
  /\ ~savingApiKey
  /\ IF Trim(apiKeyInput) = <<>>
     THEN /\ saveMessage' = MsgEnterKey
          /\ UNCHANGED <<savingApiKey, saveReqs>>
     ELSE IF selectedModel = None \/ selectedProvider = None
     THEN /\ saveMessage' = MsgSelectModel
          /\ UNCHANGED <<savingApiKey, saveReqs>>
     ELSE /\ Len(activeModels) + instanceCount <= MaxModels
          /\ savingApiKey' = TRUE
          /\ saveMessage' = MsgSaving
          /\ saveReqs' = saveReqs \cup
               {[provider |-> selectedProvider, apiKey |-> apiKeyInput,
                 selectedModel |-> selectedModel, instanceCount |-> instanceCount]}
  /\ UNCHANGED <<storageVars, coordVars, selectedProvider, availableModels,
                 loadingModels, selectedModel, apiKeyInput, instanceCount, chat,
                 modelFetches, keyBatches, processReqs, winnerReqs, timerVars,
                 histVars>>

\* Array.from({ length: instanceCount }, ...) of handleSaveApiKey.
NewModels(req, stamp) ==
  [i \in 1..req.instanceCount |->
     NewModel(req.provider, req.selectedModel, stamp, i - 1, req.apiKey)]

\* Mutant of AppendModels: the new records are put in front.
PrependModels(prevModels, newModels) == newModels \o prevModels

AppendModels(prevModels, newModels) == prevModels \o newModels

\* Mutant of saveFailed: the failure branch returns without resetting
\* savingApiKey.
saveFailedKeepsSaving(req) ==
  /\ req \in saveReqs
  /\ saveReqs' = saveReqs \ {req}
  /\ saveMessage' = MsgSaveFailed
  /\ UNCHANGED <<storageVars, coordVars, selectedProvider, availableModels,
                 loadingModels, selectedModel, apiKeyInput, savingApiKey,
                 instanceCount, chat, modelFetches, keyBatches, processReqs,
                 winnerReqs, timerVars, histVars>>

\* handleSaveApiKey after its await, saveResult.success false.
saveFailed(req) ==
  /\ req \in saveReqs
  /\ saveReqs' = saveReqs \ {req}
  /\ saveMessage' = MsgSaveFailed
  /\ savingApiKey' = FALSE
  /\ UNCHANGED <<storageVars, coordVars, selectedProvider, availableModels,
                 loadingModels, selectedModel, apiKeyInput, instanceCount, chat,
                 modelFetches, keyBatches, processReqs, winnerReqs, timerVars,
                 histVars>>

\* handleSaveApiKey after its await, saveResult.success true, when
\* getProviderURL throws inside Array.from: the async function rejects and
\* none of the statements after line 267 run.
saveThrows(req) ==
  /\ req \in saveReqs
  /\ req.instanceCount > 0
  /\ getProviderURL(req.provider) = Throws
  /\ saveReqs' = saveReqs \ {req}
  /\ UNCHANGED <<storageVars, coordVars, modalVars, chat, modelFetches, keyBatches,
                 processReqs, winnerReqs, timerVars, histVars>>

\* handleSaveApiKey after its await, saveResult.success true.
saveSucceeded(req) ==
  /\ req \in saveReqs
  /\ ~(req.instanceCount > 0 /\ getProviderURL(req.provider) = Throws)
  /\ LET updated == AppendModels(activeModels, NewModels(req, clock)) IN
       /\ WithinKeyRounds(updated, hasConsented)
       /\ activeModels' = updated
       /\ lsModels' = updated
       /\ chat' = RenderChat(chat, updated, hasConsented, masterPrompt, triggerSend)
       /\ processReqs' = processReqs \cup
            MountRequests(chat, updated, hasConsented, masterPrompt, triggerSend)
       /\ keyBatches' = LoadKeysEffect(keyBatches, updated, hasConsented)
       /\ keyRounds' = KeyRoundsAfter(updated, hasConsented)
  /\ saveReqs' = saveReqs \ {req}
  /\ saveMessage' = MsgAdded
  /\ savingApiKey' = FALSE
  /\ resetTimers' = resetTimers + 1
  /\ clock' = clock + 1
  /\ UNCHANGED <<lsConsent, hasConsented, showConsentModal, masterPrompt,
                 showAddModal, isStarted, triggerSend, selectedProvider,
                 availableModels, loadingModels, selectedModel, apiKeyInput,
                 instanceCount, modelFetches, winnerReqs, reloadPending, openedTabs>>

\* The 1500 ms timer set after a successful save.
resetTimerFires ==
  /\ resetTimers > 0
  /\ resetTimers' = resetTimers - 1
  /\ apiKeyInput' = <<>>
  /\ selectedModel' = None
  /\ saveMessage' = ""
  /\ instanceCount' = 1
  /\ UNCHANGED <<storageVars, coordVars, selectedProvider, availableModels,
                 loadingModels, savingApiKey, chat, netVars, reloadPending, histVars>>

\* ------------------------------------------------- loadKeysForModels replies
\* fetchProviderApiKey: data.apiKey, or null for a failure or a body without key.
KeyResults == {ServerKey, NoKey}
KeyMaps == UNION {[need -> KeyResults] : need \in SUBSET (1..MaxModels)}

\* Mutant of ApplyKeys: the list is replaced by the records that were fetched.
ApplyKeysFetchedOnly(prevModels, keyMap) ==
  SelectSeq([i \in 1..Len(prevModels) |->
               IF i \in DOMAIN keyMap
               THEN [prevModels[i] EXCEPT !.encryptedApiKey = keyMap[i]]
               ELSE prevModels[i]],
            LAMBDA m : m.id \in {prevModels[i].id : i \in DOMAIN keyMap})

ApplyKeys(prevModels, keyMap) ==
  [i \in 1..Len(prevModels) |->
     IF i \in DOMAIN keyMap
     THEN [prevModels[i] EXCEPT !.encryptedApiKey = keyMap[i]]
     ELSE prevModels[i]]

\* Mutant of keysReply: the list with the loaded keys is stored as well.
keysReplyStored(k, keyMap) ==
  /\ k \in 1..Len(keyBatches)
  /\ keyMap \in [keyBatches[k] -> KeyResults]
  /\ LET updated == ApplyKeys(activeModels, keyMap) IN
       /\ WithinKeyRounds(updated, hasConsented)
       /\ activeModels' = updated
       /\ lsModels' = updated
       /\ keyBatches' = LoadKeysEffect(RemoveAt(keyBatches, k), updated, hasConsented)
       /\ keyRounds' = KeyRoundsAfter(updated, hasConsented)
  /\ UNCHANGED <<lsConsent, hasConsented, showConsentModal, masterPrompt,
                 showAddModal, isStarted, triggerSend, modalVars, chat,
                 modelFetches, saveReqs, processReqs, winnerReqs, timerVars,
                 clock, openedTabs>>

\* loadKeysForModels after Promise.all, for the k-th batch in flight; the new
\* array it sets makes the effect run again.
keysReply(k, keyMap) ==
  /\ k \in 1..Len(keyBatches)
  /\ keyMap \in [keyBatches[k] -> KeyResults]
  /\ LET updated == ApplyKeys(activeModels, keyMap) IN
       /\ WithinKeyRounds(updated, hasConsented)
       /\ activeModels' = updated
       /\ keyBatches' = LoadKeysEffect(RemoveAt(keyBatches, k), updated, hasConsented)
       /\ keyRounds' = KeyRoundsAfter(updated, hasConsented)
  /\ UNCHANGED <<storageVars, hasConsented, showConsentModal, masterPrompt,
                 showAddModal, isStarted, triggerSend, modalVars, chat,
                 modelFetches, saveReqs, processReqs, winnerReqs, timerVars,
                 clock, openedTabs>>

\* ------------------------------------------------------------ specification
Next ==
  \/ handleConsent
  \/ handleReject
  \/ \E value \in Prompts : handleMasterPromptChange(value)
  \/ handleSendMasterPrompt
  \/ \E i \in 1..MaxModels, value \in Prompts : setUserPrompt(i, value)
  \/ \E i \in 1..MaxModels : handleSend(i)
  \/ \E req \in processReqs, outcome \in Outcomes : processReply(req, outcome)
  \/ \E i \in 1..MaxModels : handleSelectWinner(i)
  \/ \E w \in winnerReqs, outcome \in Outcomes : winnerReply(w, outcome)
  \/ reloadTimerFires
  \/ \E i \in 1..MaxModels : handleDismiss(i)
  \/ handleAddModel
  \/ handleCloseAddModal
  \/ \E iconName \in Providers : handleIconSelect(iconName)
  \/ \E k \in 1..MaxFetches, ok \in BOOLEAN : modelsReply(k, ok)
  \/ \E model \in ModelNames : handleModelSelect(model)
  \/ \E value \in KeyInputs : setApiKeyInput(value)
  \/ handleSaveApiKey
  \/ \E req \in saveReqs : saveFailed(req)
  \/ \E req \in saveReqs : saveThrows(req)
  \/ \E req \in saveReqs : saveSucceeded(req)
  \/ resetTimerFires
  \/ \E k \in 1..MaxKeyRounds, keyMap \in KeyMaps : keysReply(k, keyMap)

Spec == Init /\ [][Next]_vars

\* A page session over the stored model list with the add-model modal left
\* closed: consent, the master input, the chat instances, winner and dismiss,
\* key loading.  Every action that reads or writes chat or processReqs is in
\* it, but for the mounting of an instance added by saveSucceeded.
NextChat ==
  \/ handleConsent
  \/ handleReject
  \/ \E value \in Prompts : handleMasterPromptChange(value)
  \/ handleSendMasterPrompt
  \/ \E i \in 1..MaxModels, value \in Prompts : setUserPrompt(i, value)
  \/ \E i \in 1..MaxModels : handleSend(i)
  \/ \E req \in processReqs, outcome \in Outcomes : processReply(req, outcome)
  \/ \E i \in 1..MaxModels : handleSelectWinner(i)
  \/ \E w \in winnerReqs, outcome \in Outcomes : winnerReply(w, outcome)
  \/ reloadTimerFires
  \/ \E i \in 1..MaxModels : handleDismiss(i)
  \/ \E k \in 1..MaxKeyRounds, keyMap \in KeyMaps : keysReply(k, keyMap)

SpecChat == Init /\ [][NextChat]_vars

\* The winner flow: the chat session driven from the master input alone, with
\* the scheduling the browser gives: a fetch promise settles (with a response
\* or a rejection) and a timer that was set fires.
NextWinner ==
  \/ handleConsent
  \/ handleReject
  \/ \E value \in Prompts : handleMasterPromptChange(value)
  \/ handleSendMasterPrompt
  \/ \E req \in processReqs, outcome \in Outcomes : processReply(req, outcome)
  \/ \E i \in 1..MaxModels : handleSelectWinner(i)
  \/ \E w \in winnerReqs, outcome \in Outcomes : winnerReply(w, outcome)
  \/ reloadTimerFires
  \/ \E i \in 1..MaxModels : handleDismiss(i)
  \/ \E k \in 1..MaxKeyRounds, keyMap \in KeyMaps : keysReply(k, keyMap)

SpecWinnerFair ==
  /\ Init
  /\ [][NextWinner]_vars
  /\ WF_vars(\E w \in winnerReqs, outcome \in Outcomes : winnerReply(w, outcome))
  /\ WF_vars(reloadTimerFires)

\* The add-model flow with the master input left untouched: consent, the
\* modal, the save round trip and its timer, key loading.  Every action that
\* writes activeModels, localStorage or the modal state is in it, but for the
\* reload that follows a winner selection.
NextAdd ==
  \/ handleConsent
  \/ handleReject
  \/ handleAddModel
  \/ handleCloseAddModal
  \/ \E iconName \in Providers : handleIconSelect(iconName)
  \/ \E k \in 1..MaxFetches, ok \in BOOLEAN : modelsReply(k, ok)
  \/ \E model \in ModelNames : handleModelSelect(model)
  \/ \E value \in KeyInputs : setApiKeyInput(value)
  \/ handleSaveApiKey
  \/ \E req \in saveReqs : saveFailed(req)
  \/ \E req \in saveReqs : saveThrows(req)
  \/ \E req \in saveReqs : saveSucceeded(req)
  \/ resetTimerFires
  \/ \E k \in 1..MaxKeyRounds, keyMap \in KeyMaps : keysReply(k, keyMap)

SpecAdd == Init /\ [][NextAdd]_vars


\* =================================================================== claims
\* The ids of a model list, in order; s is an initial part of t.
Ids(models) == [i \in 1..Len(models) |-> models[i].id]

IsPrefix(s, t) == Len(s) <= Len(t) /\ \A i \in 1..Len(s) : s[i] = t[i]

\* Text that is empty or only spaces, said without Trim.
IsBlankText(text) == \A k \in 1..Len(text) : text[k] = " "

\* The /api/process requests instance i issues in a step.
NewRequests(i) == { r \in processReqs' : r \notin processReqs /\ r.inst = i }

\* A step in which the master send takes effect.
MasterSendStep == handleSendMasterPrompt /\ ~IsBlankText(masterPrompt)

\* A step in which the reply to request req reaches its instance.
ReplyStep(req) ==
  /\ req \in processReqs
  /\ req \notin processReqs'
  /\ req.inst \in 1..Len(chat')
  /\ chat'[req.inst].answered = req.n
  /\ chat'[req.inst].sent = chat[req.inst].sent

\* C1 as stated: a master send with a non-blank master prompt increments
\* triggerSend by one and every instance in activeModels issues exactly one
\* /api/process request in that step.
C1_EveryInstanceSends ==
  [][MasterSendStep =>
       /\ triggerSend' = triggerSend + 1
       /\ \A i \in 1..Len(activeModels) : Cardinality(NewRequests(i)) = 1]_vars

\* C1 amended: a master send with a non-blank master prompt increments
\* triggerSend by one; an instance whose own prompt is non-blank and whose
\* API key is present issues exactly one request, carrying its model
\* identifier, and every other instance issues none.
C1_MasterSendFansOut ==
  [][MasterSendStep =>
       /\ triggerSend' = triggerSend + 1
       /\ Len(chat) = Len(activeModels)
       /\ \A i \in 1..Len(activeModels) :
            IF ~IsBlankText(chat[i].userPrompt) /\ activeModels[i].encryptedApiKey # NoKey
            THEN /\ Cardinality(NewRequests(i)) = 1
                 /\ \A r \in NewRequests(i) : r.modelIdentifier = activeModels[i].id
            ELSE NewRequests(i) = {}]_vars

\* C1 witness: after a master send one instance has issued its request and
\* another, whose prompt was blank or whose key is missing, has issued none.
C1_Witness ==
  /\ triggerSend = 1
  /\ Len(chat) = 2
  /\ chat[1].sent = 1 /\ chat[1].isLoading
  /\ chat[2].sent = 0

\* C2: in the step in which a reply (successful, HTTP error or network
\* failure) reaches an instance, the instance ends with isLoading false,
\* isInputHidden true and showButtons true.
C2_ReplyShowsButtons ==
  [][\A req \in processReqs :
       ReplyStep(req) =>
         /\ ~chat'[req.inst].isLoading
         /\ chat'[req.inst].isInputHidden
         /\ chat'[req.inst].showButtons]_vars

\* C2 witness: an instance shows the text of a network failure.
C2_Witness ==
  \E i \in 1..Len(chat) :
    /\ chat[i].answered > 0
    /\ chat[i].aiResponse = MsgUnreachable
    /\ chat[i].showButtons

\* C3: when handleSend runs for an instance (from its own input or from the
\* master trigger) with a non-blank prompt and no API key, the response
\* becomes the "API key missing" message, no request is issued and isLoading,
\* isInputHidden and showButtons keep their values.
C3_MissingKey ==
  [][\A i \in 1..Len(chat) :
       (/\ handleSend(i) \/ MasterSendStep
        /\ ~IsBlankText(chat[i].userPrompt)
        /\ activeModels[i].encryptedApiKey = NoKey)
       => /\ chat'[i].aiResponse = MsgKeyMissing
          /\ NewRequests(i) = {}
          /\ chat'[i].isLoading = chat[i].isLoading
          /\ chat'[i].isInputHidden = chat[i].isInputHidden
          /\ chat'[i].showButtons = chat[i].showButtons]_vars

\* C3 witness: an instance without a key shows the "API key missing" message.
C3_Witness ==
  \E i \in 1..Len(chat) :
    /\ chat[i].aiResponse = MsgKeyMissing
    /\ activeModels[i].encryptedApiKey = NoKey
    /\ chat[i].sent = 0

\* A step in which the add-model submission req completes successfully.
SaveSuccessStep(req) ==
  /\ req \in saveReqs
  /\ req \notin saveReqs'
  /\ saveMessage' = MsgAdded
  /\ resetTimers' = resetTimers + 1

\* C4: a successful add-model submission appends exactly N records to the
\* end of activeModels (N the instance count of the submission), each with
\* the submitted provider, model and key, keeps the existing records in
\* their order, and leaves the stored list equal to the in-memory list.
C4_AppendsN ==
  [][\A req \in saveReqs :
       SaveSuccessStep(req) =>
         /\ Len(activeModels') = Len(activeModels) + req.instanceCount
         /\ IsPrefix(activeModels, activeModels')
         /\ \A i \in (Len(activeModels) + 1)..Len(activeModels') :
              /\ activeModels'[i].provider = req.provider
              /\ activeModels'[i].name = req.selectedModel
              /\ activeModels'[i].encryptedApiKey = req.apiKey
         /\ lsModels' = activeModels']_vars

\* C4 witness: a model was added behind a stored one whose key was loaded
\* from the server into memory only.
C4_Witness ==
  /\ Len(activeModels) = 2
  /\ activeModels[1].encryptedApiKey = ServerKey
  /\ activeModels[2].id[3] > 0
  /\ lsModels = activeModels
  /\ saveMessage = MsgAdded

\* C5: handleSaveApiKey with an empty or blank API key input sets the
\* validation message and changes nothing else: no save request, and
\* activeModels, localStorage and savingApiKey keep their values.
C5_BlankKeyRejected ==
  [][(handleSaveApiKey /\ IsBlankText(apiKeyInput)) =>
       /\ saveMessage' = MsgEnterKey
       /\ UNCHANGED <<storageVars, coordVars, selectedProvider, availableModels,
                      loadingModels, selectedModel, apiKeyInput, savingApiKey,
                      instanceCount, chat, netVars, timerVars, histVars>>]_vars

\* C5 witness: the validation message is shown for an input of one space
\* while a model is selected.
C5_Witness ==
  /\ saveMessage = MsgEnterKey
  /\ apiKeyInput = <<" ">>
  /\ selectedModel # None
  /\ saveReqs = {}

\* C6: no step removes or reorders an instance: the ids of activeModels
\* before a step are a prefix of the ids after it.
C6_IdsOnlyGrow ==
  [][IsPrefix(Ids(activeModels), Ids(activeModels'))]_vars

\* C6 witness: the list went through a key-loading round and an append.
C6_Witness ==
  /\ Len(activeModels) = 2
  /\ keyRounds = 2
  /\ activeModels[1].encryptedApiKey = NoKey
  /\ activeModels[2].id[3] > 0

\* C7: once an instance has received a response, every further request it
\* issues is issued in a step that increments triggerSend.
C7_TerminalForOwnInput ==
  [][\A i \in 1..Len(chat) :
       (chat[i].answered > 0 /\ NewRequests(i) # {})
         => triggerSend' = triggerSend + 1]_vars

\* C7 witness: an instance that already shows its buttons is loading again,
\* which only a send after its first reply produces.
C7_Witness ==
  \E i \in 1..Len(chat) :
    /\ chat[i].showButtons
    /\ chat[i].isLoading
    /\ chat[i].answered = 1
    /\ chat[i].sent = 2

\* C8 as stated: when no request of an instance is in flight any more, the
\* response it retains is the reply to the request it issued last.
C8_RetainsLatestExchange ==
  \A i \in 1..Len(chat) :
    (chat[i].answered > 0 /\ { r \in processReqs : r.inst = i } = {})
      => chat[i].answered = chat[i].sent

\* C9 as stated: a change of the master prompt sets every instance's prompt
\* to it, and every request a master send issues carries the master prompt.
C9_RequestsCarryMasterPrompt ==
  [][/\ masterPrompt' # masterPrompt =>
          \A i \in 1..Len(chat') : chat'[i].userPrompt = masterPrompt'
     /\ MasterSendStep =>
          \A i \in 1..Len(chat) : \A r \in NewRequests(i) : r.prompt = masterPrompt]_vars

\* C9 amended: a change of the master prompt sets every instance's prompt to
\* it; every request a master send issues carries the prompt of its own
\* instance; and an instance's prompt comes to differ from the master prompt
\* only by an edit of that instance's own input.
C9_BroadcastUntilEdited ==
  [][/\ masterPrompt' # masterPrompt =>
          \A i \in 1..Len(chat') : chat'[i].userPrompt = masterPrompt'
     /\ MasterSendStep =>
          \A i \in 1..Len(chat) : \A r \in NewRequests(i) : r.prompt = chat[i].userPrompt
     /\ \A i \in 1..Len(chat) :
          (/\ i <= Len(chat')
           /\ chat[i].userPrompt = masterPrompt
           /\ chat'[i].userPrompt # masterPrompt')
          => \E value \in Prompts : setUserPrompt(i, value)]_vars

\* C9 witness: the request a master send issued for an instance that had
\* sent once before carries a prompt that is not the master prompt.
C9_Witness ==
  /\ triggerSend = 1
  /\ \E r \in processReqs :
       /\ r.n = 2
       /\ r.prompt # masterPrompt
       /\ chat[r.inst].userPrompt = r.prompt

\* C10: the step in which a reply reaches an instance changes only that
\* instance's response, error, loading, input-hidden and buttons state: the
\* other instances, the coordinator, the modal, localStorage and the other
\* requests in flight keep their values.
C10_ReplyIsLocal ==
  [][\A req \in processReqs :
       ReplyStep(req) =>
         /\ Len(chat') = Len(chat)
         /\ \A j \in 1..Len(chat) : j # req.inst => chat'[j] = chat[j]
         /\ chat'[req.inst].userPrompt = chat[req.inst].userPrompt
         /\ chat'[req.inst].dismissed = chat[req.inst].dismissed
         /\ processReqs' = processReqs \ {req}
         /\ UNCHANGED <<storageVars, coordVars, modalVars, modelFetches, saveReqs,
                        keyBatches, winnerReqs, timerVars>>]_vars

\* C10 witness: one instance holds its reply while the other is still loading.
C10_Witness ==
  /\ Len(chat) = 2
  /\ \E i, j \in 1..2 :
       /\ i # j
       /\ chat[i].answered > 0 /\ ~chat[i].isLoading
       /\ chat[j].answered = 0 /\ chat[j].isLoading

\* C11 as stated: a winner selection is always followed by a page reload,
\* the only step that clears the reload timer; and a provider tab is opened
\* only in the step in which the /api/select-winner request returns, only
\* when that request succeeded (not with an HTTP error status, not with a
\* network failure), always when it succeeded, and with the reload timer
\* pending after it, so never after the reload.
C11_WinnerEndsInReload ==
  /\ [][/\ \A t \in openedTabs' \ openedTabs :
             /\ \E w \in winnerReqs : w.inst = t.inst /\ w \notin winnerReqs'
             /\ t.outcome = "reply"
             /\ reloadPending'
        /\ \A w \in winnerReqs :
             winnerReply(w, "reply") =>
               [inst |-> w.inst, outcome |-> "reply"] \in openedTabs'
        /\ (reloadPending /\ ~reloadPending') => openedTabs' = {}]_vars
  /\ (winnerReqs # {}) ~> (winnerReqs = {} /\ ~reloadPending)

\* A step in which instance i is hidden by its dismiss button.
DismissStep(i) ==
  /\ i \in 1..Len(chat) /\ i \in 1..Len(chat')
  /\ ~chat[i].dismissed
  /\ chat'[i].dismissed

\* C12: the step that dismisses an instance leaves activeModels, the stored
\* list, masterPrompt and triggerSend unchanged, and the page reload that
\* follows puts every dismissed instance back: its record is in activeModels
\* again and its widget is mounted and displayed.
C12_DismissOnlyHides ==
  [][/\ \A i \in 1..Len(chat) :
          DismissStep(i) =>
            UNCHANGED <<activeModels, lsModels, masterPrompt, triggerSend>>
     /\ \A i \in 1..Len(chat) :
          (chat[i].dismissed /\ reloadTimerFires) =>
            \E j \in 1..Len(activeModels') :
              /\ activeModels'[j].id = activeModels[i].id
              /\ j \in 1..Len(chat')
              /\ ~chat'[j].dismissed]_vars

\* C12 witness: an instance is dismissed and the reload timer of a winner
\* selection is pending.
C12_Witness ==
  /\ reloadPending
  /\ \E i \in 1..Len(chat) : chat[i].dismissed

\* C13 as stated: a local storage entry changes only in the step in which an
\* add-model submission completes successfully.
C13_OnlyAddModelWrites ==
  [][storageVars' # storageVars => \E req \in saveReqs : SaveSuccessStep(req)]_vars

\* C13 amended: the stored model list changes only in the step in which an
\* add-model submission completes successfully; the stored consent flag
\* changes only by the consent modal's buttons, set by accept and removed by
\* reject.
C13_WritersOfStorage ==
  [][/\ lsModels' # lsModels => \E req \in saveReqs : SaveSuccessStep(req)
     /\ lsConsent' # lsConsent =>
          /\ showConsentModal
          /\ \/ lsConsent' = "true" /\ hasConsented' /\ ~showConsentModal'
             \/ lsConsent' = None /\ ~hasConsented' /\ showConsentModal']_vars

\* C13 witness: consent is stored and an add-model submission has just
\* written the list.
C13_Witness ==
  /\ lsConsent = "true"
  /\ saveMessage = MsgAdded
  /\ Len(lsModels) > 0
  /\ lsModels[Len(lsModels)].id[3] > 0
  /\ lsModels = activeModels

\* C14 as stated: in every state, every instance in activeModels has a record
\* with the same id in the stored list, and that record holds the same key.
C14_KeysMirrored ==
  \A i \in 1..Len(activeModels) :
    \E j \in 1..Len(lsModels) :
      /\ lsModels[j].id = activeModels[i].id
      /\ lsModels[j].encryptedApiKey = activeModels[i].encryptedApiKey

\* C15: the reject button leaves no stored consent flag and reloads the page
\* into a state with the consent modal shown and hasConsented false; and in
\* every state in which no consent is stored, which is where a reload after
\* reject leaves the page, the modal is shown and hasConsented is false.
C15_RejectShowsModalAgain ==
  /\ [](lsConsent # "true" => showConsentModal /\ ~hasConsented)
  /\ [][handleReject =>
          /\ lsConsent' = None
          /\ showConsentModal'
          /\ ~hasConsented'
          /\ chat' = <<>>
          /\ lsModels' = lsModels]_vars

\* C15 witness: a page with a stored model list and no stored consent shows
\* the consent modal, the state reject is pressed in and reloads into.
C15_Witness ==
  /\ lsConsent = None
  /\ showConsentModal
  /\ ~hasConsented
  /\ Len(lsModels) > 0
  /\ chat = <<>>

\* C16 as stated: whenever loadingModels is false and a provider is selected,
\* availableModels is what fetchProviderModels gives for that provider: the
\* server's list for it, or the empty list of a failed request.
C16_ListOfSelectedProvider ==
  (~loadingModels /\ selectedProvider # None) =>
    \E ok \in BOOLEAN : availableModels = FetchedModels(selectedProvider, ok)

\* C17 as stated, for finite runs: key loading cannot cycle.  Every step that
\* issues a batch of /api/keys/get requests changes what the effect depends
\* on or what is in flight (consent, the model list, the batches awaited);
\* a step that issues one and leaves all three as they were can be repeated
\* without end.
C17_KeyLoadingStops ==
  [][keyRounds' = keyRounds + 1 =>
       <<hasConsented', activeModels', keyBatches'>> #
         <<hasConsented, activeModels, keyBatches>>]_vars

\* C18: the step in which the save request of a submission fails shows the
\* failure message, sets savingApiKey to false, leaves activeModels and both
\* local storage entries unchanged and issues no request; and a save request
\* is only ever issued by a step of handleSaveApiKey, the user's submission.
C18_SaveFailure ==
  [][/\ \A req \in saveReqs :
          saveFailed(req) =>
            /\ saveMessage' = MsgSaveFailed
            /\ ~savingApiKey'
            /\ UNCHANGED <<activeModels, lsModels, lsConsent, chat>>
            /\ saveReqs' = saveReqs \ {req}
     /\ saveReqs' \ saveReqs # {} =>
          /\ handleSaveApiKey
          /\ ~savingApiKey /\ savingApiKey'
          /\ ~IsBlankText(apiKeyInput)]_vars

\* C18 witness: the failure message is shown, nothing is in flight and the
\* save button is enabled again.
C18_Witness ==
  /\ saveMessage = MsgSaveFailed
  /\ ~savingApiKey
  /\ saveReqs = {}
  /\ showAddModal
  /\ ~IsBlankText(apiKeyInput)

\* C19 as stated, for finite runs: whenever savingApiKey is true the save
\* request of the submission that set it is still in flight, so that its
\* continuation, the only code that sets savingApiKey back to false, is still
\* to run.
C19_SavingIsReset ==
  savingApiKey => saveReqs # {}

\* C20 as stated: the prompt of every /api/select-winner request is the
\* prompt that was carried by the /api/process request whose reply the
\* instance shows, the response the request reports.
C20_WinnerReportsExchange ==
  [][\A w \in winnerReqs' \ winnerReqs :
       /\ w.response = chat[w.inst].aiResponse
       /\ chat[w.inst].answered > 0
       /\ w.prompt = chat[w.inst].answeredPrompt]_vars

\* C21: in every state in which hasConsented is false no /api/keys/get
\* batch has been issued or is in flight, no chat instance is mounted and no
\* /api/process request exists; and in every state in which hasConsented is
\* true the stored consent flag is 'true' and the consent modal is not shown.
C21_NothingBeforeConsent ==
  /\ ~hasConsented =>
       /\ keyBatches = <<>>
       /\ keyRounds = 0
       /\ chat = <<>>
       /\ processReqs = {}
  /\ hasConsented =>
       /\ lsConsent = "true"
       /\ ~showConsentModal

\* C21 witness: with consent given and stored, a key batch and a chat
\* request are in flight for a stored list that has a record without a key.
C21_Witness ==
  /\ hasConsented
  /\ lsConsent = "true"
  /\ keyBatches # <<>>
  /\ processReqs # {}
  /\ Len(chat) = 2

====
